---- MODULE Spec2Model ----
(***************************************************************************)
(* Earley parser of earley-parser.py: the chart, the predict / scan /      *)
(* complete operations, the column-by-column worklist loop of parse, the   *)
(* acceptance test and the reconstruction of one parse tree.               *)
(*                                                                         *)
(* Chart positions are 0-based as in the source; TLA+ sequences are        *)
(* 1-based, so column p of the chart is chart[p + 1] and body symbol d of  *)
(* a rule is body[d + 1].                                                  *)
(***************************************************************************)
EXTENDS Naturals, Sequences, FiniteSets, TLC

VARIABLES rules, pending, words, chart, i, j, pc, result, log

vars == <<rules, pending, words, chart, i, j, pc, result, log>>

(***************************************************************************)
(* Bounds of the model.                                                    *)
(***************************************************************************)
\* longest sentence handed to parse
MaxLen == 3
\* most rules of a grammar drawn from RulePool
MaxRules == 2
\* most parse calls made on one parser instance
MaxParses == 3
\* longest sentence when one instance is reused for several parses
MaxReuseLen == 1

(***************************************************************************)
(* Symbols.  A symbol is a nonterminal iff its first character is          *)
(* uppercase (symbol[0].isupper()); UpperSymbols lists the symbols of the  *)
(* model's universe for which that test is true.  "γ" is a lowercase       *)
(* letter, so isupper() is false for it.                                   *)
(***************************************************************************)
UpperSymbols == {"S", "A", "B", "D", "NP", "VP"}

isupper(sym) == sym \in UpperSymbols

\* Python's None, the value of next_symbol of a complete state
None == "None"

\* a token that occurs in no grammar of the model
Foreign == "z"

Rule(h, b) == [head |-> h, body |-> b]

State(r, d, s, bp) == [rule |-> r, dot |-> d, start |-> s, backpointers |-> bp]

next_symbol(st) ==
    IF st.dot < Len(st.rule.body) THEN st.rule.body[st.dot + 1] ELSE None

is_complete(st) == st.dot >= Len(st.rule.body)

\* the augmented start rule built by parse
start_rule == Rule("γ", <<"S">>)

\* F applied to the value of v: Python evaluates an argument once, before
\* the call
Call(v, F(_)) == CHOOSE r \in { F(x) : x \in {v} } : TRUE

\* x in list
Contains(seq, x) == \E k \in 1..Len(seq) : seq[k] = x

(***************************************************************************)
(* _add_to_chart: out-of-range positions are ignored, a state equal to one *)
(* of the column (dataclass equality: all four fields) is not added again. *)
(***************************************************************************)
add_to_chart_nodedup(ch, st, position) ==
    IF position >= Len(ch) THEN ch
    ELSE [ch EXCEPT ![position + 1] = Append(@, st)]

\* a state with the rule, dot and start of st, whatever its spans
SameItem(seq, st) ==
    \E k \in 1..Len(seq) :
        seq[k].rule = st.rule /\ seq[k].dot = st.dot /\ seq[k].start = st.start

add_to_chart_ignoring_spans(ch, st, position) ==
    IF position >= Len(ch) THEN ch
    ELSE IF SameItem(ch[position + 1], st) THEN ch
    ELSE [ch EXCEPT ![position + 1] = Append(@, st)]

add_to_chart(ch, st, position) ==
    IF position >= Len(ch) THEN ch
    ELSE IF Contains(ch[position + 1], st) THEN ch
    ELSE [ch EXCEPT ![position + 1] = Append(@, st)]

(***************************************************************************)
(* complete: the for loop runs over the live list chart[state.start]; when *)
(* state.start = position the loop also visits the states it appends.      *)
(***************************************************************************)
RECURSIVE complete_from(_, _, _, _)
complete_from_into_start(ch, st, position, k) ==
    IF k > Len(ch[st.start + 1]) THEN ch
    ELSE LET s == ch[st.start + 1][k]
             new_state == State(s.rule, s.dot + 1, s.start,
                                Append(s.backpointers, <<st.start, position>>))
         IN  Call(IF ~is_complete(s) /\ next_symbol(s) = st.rule.head
                  THEN add_to_chart(ch, new_state, st.start)
                  ELSE ch,
                  LAMBDA c : complete_from(c, st, position, k + 1))

complete_from_own_span(ch, st, position, k) ==
    IF k > Len(ch[st.start + 1]) THEN ch
    ELSE LET s == ch[st.start + 1][k]
             new_state == State(s.rule, s.dot + 1, s.start,
                                Append(s.backpointers, <<s.start, position>>))
         IN  Call(IF ~is_complete(s) /\ next_symbol(s) = st.rule.head
                  THEN add_to_chart(ch, new_state, position)
                  ELSE ch,
                  LAMBDA c : complete_from(c, st, position, k + 1))

complete_from(ch, st, position, k) ==
    IF k > Len(ch[st.start + 1]) THEN ch
    ELSE LET s == ch[st.start + 1][k]
             new_state == State(s.rule, s.dot + 1, s.start,
                                Append(s.backpointers, <<st.start, position>>))
         IN  Call(IF ~is_complete(s) /\ next_symbol(s) = st.rule.head
                  THEN add_to_chart(ch, new_state, position)
                  ELSE ch,
                  LAMBDA c : complete_from(c, st, position, k + 1))

complete(ch, st, position) ==
    IF ~is_complete(st) THEN ch ELSE complete_from(ch, st, position, 1)

(***************************************************************************)
(* predict: every rule headed by the next symbol, in declaration order; an *)
(* empty-body rule is completed at once.                                   *)
(***************************************************************************)
predict_rule_noeps(ch, rule, position) ==
    add_to_chart(ch, State(rule, 0, position, <<>>), position)

predict_rule(ch, rule, position) ==
    LET new_state == State(rule, 0, position, <<>>)
        ch1 == add_to_chart(ch, new_state, position)
    IN  IF Len(rule.body) = 0 THEN complete(ch1, new_state, position) ELSE ch1

RECURSIVE predict_from(_, _, _, _, _)
predict_from_any_head(rs, ch, sym, position, r) ==
    IF r > Len(rs) THEN ch
    ELSE Call(predict_rule(ch, rs[r], position),
              LAMBDA c : predict_from(rs, c, sym, position, r + 1))

predict_from(rs, ch, sym, position, r) ==
    IF r > Len(rs) THEN ch
    ELSE Call(IF rs[r].head = sym THEN predict_rule(ch, rs[r], position) ELSE ch,
              LAMBDA c : predict_from(rs, c, sym, position, r + 1))

predict(rs, ch, st, position) ==
    IF next_symbol(st) # None /\ isupper(next_symbol(st))
    THEN predict_from(rs, ch, next_symbol(st), position, 1)
    ELSE ch

(***************************************************************************)
(* scan: the next symbol is compared literally with the token at position. *)
(***************************************************************************)
scan_same_column(ch, st, position, ws) ==
    IF position < Len(ws) /\ next_symbol(st) # None /\ next_symbol(st) = ws[position + 1]
    THEN add_to_chart(ch,
                      State(st.rule, st.dot + 1, st.start,
                            Append(st.backpointers, <<position, position + 1>>)),
                      position)
    ELSE ch

scan(ch, st, position, ws) ==
    IF position < Len(ws) /\ next_symbol(st) # None /\ next_symbol(st) = ws[position + 1]
    THEN add_to_chart(ch,
                      State(st.rule, st.dot + 1, st.start,
                            Append(st.backpointers, <<position, position + 1>>)),
                      position + 1)
    ELSE ch

(***************************************************************************)
(* Parse trees.  A ParseTree is a symbol and a list of children; build     *)
(* results carry the exception raised while building, if any.              *)
(***************************************************************************)
ParseTree(symbol, children) == [symbol |-> symbol, children |-> children]

\* the tree component of a result that has no tree (Python's None)
NoTree == [symbol |-> None, children |-> <<>>]

\* depth of nested _build_tree calls after which Python raises RecursionError
MaxDepth == 24

\* index of the first state of column col that is complete, has the given
\* head and the given start; 0 when the for loop finds none
FirstComplete_last(col, symbol, start_pos) ==
    LET hits == {k \in 1..Len(col) : /\ is_complete(col[k])
                                     /\ col[k].rule.head = symbol
                                     /\ col[k].start = start_pos}
    IN  IF hits = {} THEN 0 ELSE CHOOSE k \in hits : \A m \in hits : k >= m

FirstComplete(col, symbol, start_pos) ==
    LET hits == {k \in 1..Len(col) : /\ is_complete(col[k])
                                     /\ col[k].rule.head = symbol
                                     /\ col[k].start = start_pos}
    IN  IF hits = {} THEN 0 ELSE CHOOSE k \in hits : \A m \in hits : k <= m

RECURSIVE build_tree(_, _, _, _)
RECURSIVE build_children(_, _, _, _, _, _)
RECURSIVE build_subtree(_, _, _, _)

\* the for loop of _build_tree over the body symbols, from body index n on
build_children(ch, st, ws, depth, n, children) ==
    IF n > Len(st.rule.body) THEN [error |-> "", children |-> children]
    ELSE LET symbol == st.rule.body[n]
             start_pos == st.backpointers[n][1]
             end_pos == st.backpointers[n][2]
         IN  IF isupper(symbol)
             THEN LET k == FirstComplete(ch[end_pos + 1], symbol, start_pos)
                  IN  IF k = 0
                      THEN build_children(ch, st, ws, depth, n + 1, children)
                      ELSE Call(build_subtree(ch, ch[end_pos + 1][k], ws, depth + 1),
                                LAMBDA sub :
                                    IF sub.error # ""
                                    THEN [error |-> sub.error, children |-> <<>>]
                                    ELSE Call(Append(children, sub.tree),
                                              LAMBDA cs : build_children(ch, st, ws, depth,
                                                                         n + 1, cs)))
             ELSE IF start_pos >= Len(ws)
                  THEN [error |-> "IndexError", children |-> <<>>]
                  ELSE Call(Append(children, ParseTree(ws[start_pos + 1], <<>>)),
                            LAMBDA cs : build_children(ch, st, ws, depth, n + 1, cs))

\* a call self._build_tree(s, end_pos, words)
build_subtree(ch, s, ws, depth) ==
    Call(s, LAMBDA st : Call(depth, LAMBDA d : build_tree(ch, st, ws, d)))

build_tree(ch, st, ws, depth) ==
    IF depth > MaxDepth THEN [error |-> "RecursionError", tree |-> NoTree]
    ELSE IF Len(st.rule.body) = 0
    THEN [error |-> "", tree |-> ParseTree(st.rule.head, <<>>)]
    ELSE Call(build_children(ch, st, ws, depth, 1, <<>>),
              LAMBDA built :
                  IF built.error # ""
                  THEN [error |-> built.error, tree |-> NoTree]
                  ELSE [error |-> "", tree |-> ParseTree(st.rule.head, built.children)])

(***************************************************************************)
(* The end of parse: the acceptance test on the last column, the choice of *)
(* the S state and the tree.                                               *)
(***************************************************************************)
IsAccepting(st) == st.rule.head = "γ" /\ is_complete(st) /\ st.start = 0

\* index in the last column of the S state the tree is built from, 0 if none
SelectS_strict(col) ==
    LET hits == {k \in 1..Len(col) : /\ is_complete(col[k])
                                     /\ col[k].rule.head = "S"
                                     /\ col[k].start = 0
                                     /\ Len(col[k].backpointers) > 1}
    IN  IF hits = {} THEN 0 ELSE CHOOSE k \in hits : \A m \in hits : k <= m

SelectS(col) ==
    LET hits == {k \in 1..Len(col) : /\ is_complete(col[k])
                                     /\ col[k].rule.head = "S"
                                     /\ col[k].start = 0
                                     /\ Len(col[k].backpointers) > 0}
    IN  IF hits = {} THEN 0 ELSE CHOOSE k \in hits : \A m \in hits : k <= m

\* what parse does after the loop: error is the exception it raises, "" if
\* it returns (accepted, tree)
parse_outcome(ch, ws) ==
    LET last == ch[Len(ws) + 1]
    IN  IF \E k \in 1..Len(last) : IsAccepting(last[k])
        THEN IF SelectS(last) # 0
             THEN Call(build_subtree(ch, last[SelectS(last)], ws, 1),
                       LAMBDA built :
                           IF built.error # ""
                           THEN [accepted |-> FALSE, tree |-> NoTree, error |-> built.error]
                           ELSE [accepted |-> TRUE, tree |-> built.tree, error |-> ""])
             ELSE [accepted |-> TRUE, tree |-> NoTree, error |-> ""]
        ELSE [accepted |-> FALSE, tree |-> NoTree, error |-> ""]

\* the value of result while no parse has finished
NoResult == [accepted |-> FALSE, tree |-> NoTree, error |-> ""]

\* self.chart = [[] for _ in range(len(words) + 1)]
new_chart_keep(old, n) == IF Len(old) = n + 1 THEN old ELSE [p \in 1..(n + 1) |-> <<>>]

new_chart_short(old, n) == [p \in 1..n |-> <<>>]

new_chart(old, n) == [p \in 1..(n + 1) |-> <<>>]

\* j += 1 at the end of the while body
next_j_stuck(st, n) == IF is_complete(st) THEN n ELSE n + 1

next_j(st, n) == n + 1

(***************************************************************************)
(* Grammars and sentences of the model.                                    *)
(***************************************************************************)
SeqsUpTo(S, n) == UNION {[1..m -> S] : m \in 0..n}

NonEmptySeqsUpTo(S, n) == UNION {[1..m -> S] : m \in 1..n}

RulePool ==
    { Rule("S", <<>>), Rule("S", <<"a">>), Rule("S", <<"S", "S">>),
      Rule("S", <<"S">>), Rule("S", <<"A", "a">>), Rule("S", <<"γ", "a">>),
      Rule("S", <<"a", "S">>), Rule("S", <<"A">>),
      Rule("A", <<>>), Rule("A", <<"a">>) }

G_concat == << Rule("S", <<"NP", "VP">>), Rule("NP", <<"a", "dog">>), Rule("VP", <<"ran">>) >>
G_amb == << Rule("S", <<"S", "S">>), Rule("S", <<"a">>) >>
G_eps == << Rule("S", <<"A", "x">>), Rule("A", <<>>) >>
G_undef == << Rule("S", <<"B">>) >>
G_undef_other == << Rule("S", <<"B">>), Rule("D", <<"x">>) >>
G_a == << Rule("S", <<"a">>) >>
G_chain == << Rule("A", <<>>), Rule("S", <<"A">>), Rule("B", <<"a", "S">>), Rule("S", <<"B", "S">>) >>
G_chain2 == << Rule("S", <<"A", "D">>), Rule("D", <<"A", "x">>), Rule("A", <<"B">>), Rule("B", <<>>) >>
G_late == << Rule("S", <<"A", "D">>), Rule("D", <<"A", "x">>), Rule("A", <<>>) >>
G_gamma_ab == << Rule("S", <<"a">>), Rule("S", <<"γ", "b">>) >>
G_gamma_aac == << Rule("S", <<"a", "a">>), Rule("S", <<"γ", "c">>) >>
G_gamma_eps == << Rule("S", <<>>), Rule("S", <<"γ">>) >>

NamedGrammars ==
    { G_concat, G_amb, G_eps, G_undef, G_undef_other, G_a, G_chain, G_chain2, G_late,
      G_gamma_ab, G_gamma_aac, G_gamma_eps }

Grammars == NamedGrammars \cup NonEmptySeqsUpTo(RulePool, MaxRules)

ReuseGrammars == { G_a, G_eps, G_gamma_eps }

\* the terminal symbols of a grammar: the tokens its scans can match
TerminalsOf(rs) ==
    { sym \in UNION { { rs[r].body[k] : k \in 1..Len(rs[r].body) } : r \in 1..Len(rs) } :
        ~isupper(sym) }

\* sentence.split(): token sequences over the grammar's terminals and one
\* token the grammar does not mention
Sentences(rs, n) == SeqsUpTo(TerminalsOf(rs) \cup {Foreign}, n)

(***************************************************************************)
(* The state machine.  pc is "new" before the parser is constructed,       *)
(* "idle" before the first parse call, "loop"                              *)
(* inside the loop of parse, "done" when parse has returned and "raised"   *)
(* when it has left with an exception.  pending is the list of sentences   *)
(* the caller will hand to parse, log the outcome of every finished call.  *)
(***************************************************************************)
Init ==
    /\ rules = <<>>
    /\ pending = <<>>
    /\ words = <<>>
    /\ chart = <<>>
    /\ i = 0
    /\ j = 0
    /\ pc = "new"
    /\ result = NoResult
    /\ log = <<>>

\* __init__ with a grammar whose one sentence the caller will parse
Construct ==
    /\ pc = "new"
    /\ rules' \in Grammars
    /\ pending' \in {<<w>> : w \in Sentences(rules', MaxLen)}
    /\ pc' = "idle"
    /\ UNCHANGED <<words, chart, i, j, result, log>>

\* __init__ of an instance the caller will reuse for several sentences
ConstructReuse ==
    /\ pc = "new"
    /\ rules' \in ReuseGrammars
    /\ pending' \in NonEmptySeqsUpTo(Sentences(rules', MaxReuseLen), MaxParses)
    /\ pc' = "idle"
    /\ UNCHANGED <<words, chart, i, j, result, log>>

\* the state the loop is looking at
cur == chart[i + 1][j + 1]

InLoop == pc = "loop" /\ j < Len(chart[i + 1])

\* parse, up to the first test of the loop
Parse ==
    /\ pc \in {"idle", "done", "raised"}
    /\ pending # <<>>
    /\ words' = Head(pending)
    /\ pending' = Tail(pending)
    /\ chart' = add_to_chart(new_chart(chart, Len(Head(pending))),
                             State(start_rule, 0, 0, <<>>), 0)
    /\ i' = 0
    /\ j' = 0
    /\ pc' = "loop"
    /\ UNCHANGED <<rules, result, log>>

StepPredict ==
    /\ InLoop
    /\ ~is_complete(cur)
    /\ next_symbol(cur) # None /\ isupper(next_symbol(cur))
    /\ chart' = predict(rules, chart, cur, i)
    /\ j' = next_j(cur, j)
    /\ UNCHANGED <<rules, pending, words, i, pc, result, log>>

StepScan ==
    /\ InLoop
    /\ ~is_complete(cur)
    /\ ~(next_symbol(cur) # None /\ isupper(next_symbol(cur)))
    /\ chart' = scan(chart, cur, i, words)
    /\ j' = next_j(cur, j)
    /\ UNCHANGED <<rules, pending, words, i, pc, result, log>>

StepComplete ==
    /\ InLoop
    /\ is_complete(cur)
    /\ chart' = complete(chart, cur, i)
    /\ j' = next_j(cur, j)
    /\ UNCHANGED <<rules, pending, words, i, pc, result, log>>

\* the while loop of column i ends and the for loop moves on
NextColumn ==
    /\ pc = "loop"
    /\ j >= Len(chart[i + 1])
    /\ i < Len(words)
    /\ i' = i + 1
    /\ j' = 0
    /\ UNCHANGED <<rules, pending, words, chart, pc, result, log>>

\* the for loop ends: acceptance test, tree, return
Finish ==
    /\ pc = "loop"
    /\ j >= Len(chart[i + 1])
    /\ i = Len(words)
    /\ \E outcome \in {parse_outcome(chart, words)} :
           /\ result' = outcome
           /\ pc' = IF outcome.error = "" THEN "done" ELSE "raised"
           /\ log' = Append(log, [words |-> words, accepted |-> outcome.accepted,
                                      error |-> outcome.error])
    /\ UNCHANGED <<rules, pending, words, chart, i, j>>

Steps == Parse \/ StepPredict \/ StepScan \/ StepComplete \/ NextColumn \/ Finish

Next == Construct \/ Steps

NextReuse == ConstructReuse \/ Steps

Spec == Init /\ [][Next]_vars

SpecReuse == Init /\ [][NextReuse]_vars

\* the interpreter runs parse to its end: a step that can be taken is taken
FairSpec == Init /\ [][Next]_vars /\ WF_vars(Next)

(***************************************************************************)
(* Derivability in the grammar, the reference the acceptance claims are    *)
(* stated against: DeriveFix is the least set of <<X, a, b>> such that the *)
(* nonterminal X derives the tokens a+1..b of the sentence.                *)
(***************************************************************************)
finished == pc \in {"done", "raised"}

\* every state stored in the chart, with the column that holds it
Stored == UNION { { <<p, k>> : k \in 1..Len(chart[p + 1]) } : p \in 0..(Len(chart) - 1) }

RECURSIVE BodyEnds(_, _, _, _, _)
BodyEnds(body, n, a, ws, known) ==
    IF n = 0 THEN {a}
    ELSE LET prev == BodyEnds(body, n - 1, a, ws, known)
         IN  IF isupper(body[n])
             THEN {e \in 0..Len(ws) : \E m \in prev : <<body[n], m, e>> \in known}
             ELSE {m + 1 : m \in {m \in prev : m < Len(ws) /\ ws[m + 1] = body[n]}}

DeriveStep(rs, ws, known) ==
    known \cup
    { <<rs[t[1]].head, t[2], t[3]>> : t \in
        { t \in (1..Len(rs)) \X (0..Len(ws)) \X (0..Len(ws)) :
            t[3] \in BodyEnds(rs[t[1]].body, Len(rs[t[1]].body), t[2], ws, known) } }

RECURSIVE DeriveFix(_, _, _)
DeriveFix(rs, ws, known) ==
    IF DeriveStep(rs, ws, known) = known THEN known
    ELSE DeriveFix(rs, ws, DeriveStep(rs, ws, known))

Derivable(rs, ws) == <<"S", 0, Len(ws)>> \in DeriveFix(rs, ws, {})

\* the tokens at the leaves of a tree, left to right; a childless node of a
\* nonterminal stands for an empty derivation and holds no token
RECURSIVE Leaves(_)
RECURSIVE LeavesOfAll(_, _)
LeavesOfAll(ts, n) == IF n > Len(ts) THEN <<>> ELSE Leaves(ts[n]) \o LeavesOfAll(ts, n + 1)

Leaves(t) ==
    IF Len(t.children) = 0
    THEN IF isupper(t.symbol) THEN <<>> ELSE <<t.symbol>>
    ELSE LeavesOfAll(t.children, 1)

\* the operation the loop of parse applies to a state of column p
Reapply(st, p) ==
    IF ~is_complete(st)
    THEN IF next_symbol(st) # None /\ isupper(next_symbol(st))
         THEN predict(rules, chart, st, p)
         ELSE scan(chart, st, p, words)
    ELSE complete(chart, st, p)

(***************************************************************************)
(* Claims.                                                                 *)
(***************************************************************************)

\* C1: soundness of acceptance: when parse returns accepted = true, the
\* sentence is derivable from S with the grammar's rules; the prefix "a dog"
\* of "a dog ran" is rejected.
C1_Soundness ==
    /\ (pc = "done" /\ result.accepted) => Derivable(rules, words)
    /\ (pc = "done" /\ rules = G_concat /\ words = <<"a", "dog">>) => ~result.accepted

\* C2: completeness of acceptance: every sentence derivable from S is
\* accepted, also when a nonterminal derives the empty string only through
\* a chain of rules.
C2_Completeness ==
    (pc = "done" /\ Derivable(rules, words)) => result.accepted

\* C3: leaf round-trip: the leaves of a returned tree, read left to right,
\* are the input tokens.
C3_LeafRoundTrip ==
    (pc = "done" /\ result.accepted /\ result.tree # NoTree)
        => Leaves(result.tree) = words

\* C4: dedup: no column ever holds two equal states, and adding a state that
\* its column already holds leaves the chart unchanged.
C4_Dedup ==
    \A p \in 1..Len(chart) :
        /\ \A k, m \in 1..Len(chart[p]) : chart[p][k] = chart[p][m] => k = m
        /\ \A k \in 1..Len(chart[p]) : add_to_chart(chart, chart[p][k], p - 1) = chart

\* C4 witness: the loop is at a state whose prediction finds every predicted
\* state already in the column.
C4_Witness ==
    /\ InLoop
    /\ ~is_complete(cur)
    /\ isupper(next_symbol(cur))
    /\ \E r \in 1..Len(rules) : rules[r].head = next_symbol(cur)
    /\ predict(rules, chart, cur, i) = chart

\* C5: termination of chart construction: a parse that has entered the loop
\* leaves it.
C5_Termination == (pc = "loop") ~> (pc # "loop")

\* C5 witness: a parse of a non-empty sentence with a unit cycle S -> S and a
\* left-recursive rule has ended.
C5_Witness ==
    /\ pc = "done"
    /\ Len(words) > 0
    /\ \E r \in 1..Len(rules) : rules[r] = Rule("S", <<"S">>)
    /\ \E r \in 1..Len(rules) : rules[r] = Rule("S", <<"S", "S">>)

\* C6: determinism and independence of the parses of one instance: two calls
\* with the same sentence have the same outcome whatever was parsed between
\* them, and every call starts from a chart that holds the initial state and
\* nothing else.
C6_Determinism ==
    /\ \A m, n \in 1..Len(log) : log[m].words = log[n].words => log[m] = log[n]
    /\ (pc = "loop" /\ i = 0 /\ j = 0) =>
           /\ chart[1] = <<State(start_rule, 0, 0, <<>>)>>
           /\ \A p \in 2..Len(chart) : chart[p] = <<>>

\* C6 witness: a sentence was parsed, then a sentence with another verdict,
\* then the first one again.
C6_Witness ==
    /\ Len(log) = 3
    /\ log[1].words = log[3].words
    /\ log[1].accepted # log[2].accepted

\* C7: epsilon propagation: in the finished chart, a state of column p that
\* waits for a nonterminal with an empty-body rule has its advanced state,
\* with the span (p, p), in column p; S -> A x, A -> epsilon accepts "x" with
\* the tree S(A(), x).
C7_EpsilonPropagation ==
    /\ finished =>
        \A q \in Stored :
            LET st == chart[q[1] + 1][q[2]]
            IN  (/\ ~is_complete(st)
                 /\ isupper(next_symbol(st))
                 /\ \E r \in 1..Len(rules) :
                        rules[r].head = next_symbol(st) /\ rules[r].body = <<>>)
                => Contains(chart[q[1] + 1],
                            State(st.rule, st.dot + 1, st.start,
                                  Append(st.backpointers, <<q[1], q[1]>>)))
    /\ (finished /\ rules = G_eps /\ words = <<"x">>) =>
           result = [accepted |-> TRUE, error |-> "",
                     tree |-> ParseTree("S", <<ParseTree("A", <<>>), ParseTree("x", <<>>)>>)]

\* C7 witness: a finished parse in which a state waiting for the nullable A
\* was predicted after the state A -> epsilon had been processed.
C7_Witness ==
    /\ finished
    /\ rules = G_late
    /\ words = <<"x">>
    /\ result.accepted

\* C8: the augmented rule is isolated from the grammar: processing a
\* completed augmented state adds nothing to the chart, and the only states
\* of the augmented rule are the initial one and its completion over S from
\* column 0.
C8_AugmentedIsolated ==
    /\ [][(InLoop /\ IsAccepting(cur)) => chart' = chart]_vars
    /\ [](\A q \in Stored :
            LET st == chart[q[1] + 1][q[2]]
            IN  st.rule.head = "γ" =>
                    \/ st = State(start_rule, 0, 0, <<>>) /\ q[1] = 0
                    \/ st = State(start_rule, 1, 0, <<<<0, q[1]>>>>))

\* C9: fixpoint closure: when the loop has ended, applying predict, scan or
\* complete again to any state of any column adds no state.
C9_Fixpoint ==
    finished => \A q \in Stored : Reapply(chart[q[1] + 1][q[2]], q[1]) = chart

\* C10: well-formedness of the stored states: dot within the body, one
\* backpointer per matched symbol, start no later than the column, start
\* equal to the column when dot = 0, last span ending at the column when
\* dot > 0.
C10_WellFormed ==
    \A q \in Stored :
        LET st == chart[q[1] + 1][q[2]]
            e == q[1]
        IN  /\ 0 <= st.dot /\ st.dot <= Len(st.rule.body)
            /\ Len(st.backpointers) = st.dot
            /\ st.start <= e
            /\ st.dot = 0 => st.start = e
            /\ st.dot > 0 => st.backpointers[st.dot][2] = e

\* C10 witness: a column holds a state that has matched two symbols over a
\* non-empty span, one of them by completion.
C10_Witness ==
    \E q \in Stored :
        LET st == chart[q[1] + 1][q[2]]
        IN  /\ st.dot = 2
            /\ st.start < q[1]
            /\ isupper(st.rule.body[1])

\* C11: acceptance and S-selection policy: parse returns accepted = true iff
\* the last column holds a complete augmented state with start 0; the tree is
\* built from the first complete S state with start 0 and a backpointer, the
\* result is (true, no tree) exactly when there is none, and (false, no tree)
\* when the sentence is not accepted.
C11_AcceptancePolicy ==
    finished =>
        LET last == chart[Len(words) + 1]
            accepting == \E k \in 1..Len(last) : IsAccepting(last[k])
            s == SelectS(last)
        IN  /\ (pc = "done" /\ result.accepted) <=> accepting
            /\ (accepting /\ s # 0) =>
                   /\ result.tree # NoTree
                   /\ result.tree = build_tree(chart, last[s], words, 1).tree
            /\ (accepting /\ s = 0) =>
                   result = [accepted |-> TRUE, tree |-> NoTree, error |-> ""]
            /\ ~accepting =>
                   result = [accepted |-> FALSE, tree |-> NoTree, error |-> ""]

\* a is an initial segment of b
IsPrefix(a, b) == Len(a) <= Len(b) /\ \A k \in 1..Len(a) : a[k] = b[k]

\* C12: column write discipline: while the loop is at column i, predict and
\* complete change column i only and scan changes column i+1 only; columns
\* before i are never changed, and every column only grows at its end.
C12_ColumnWrites ==
    [][pc = "loop" =>
          /\ Len(chart') = Len(chart)
          /\ \A p \in 1..Len(chart) : IsPrefix(chart[p], chart'[p])
          /\ \A p \in 1..Len(chart) : p - 1 < i => chart'[p] = chart[p]
          /\ (InLoop /\ (is_complete(cur) \/ isupper(next_symbol(cur)))) =>
                 \A p \in 1..Len(chart) : p # i + 1 => chart'[p] = chart[p]
          /\ (InLoop /\ ~is_complete(cur) /\ ~isupper(next_symbol(cur))) =>
                 \A p \in 1..Len(chart) : p # i + 2 => chart'[p] = chart[p]
      ]_vars

\* C12 witness: the loop is inside a column after the first that holds a
\* predicted state and a state advanced by completion over an earlier
\* column, and a scan has written into the next column.
C12_Witness ==
    /\ pc = "loop"
    /\ i >= 1
    /\ i < Len(words)
    /\ j >= 1
    /\ Len(chart[i + 2]) > 0
    /\ \E k \in 1..Len(chart[i + 1]) : chart[i + 1][k].dot = 0
    /\ \E k \in 1..Len(chart[i + 1]) :
           LET st == chart[i + 1][k]
           IN  /\ st.dot > 0
               /\ isupper(st.rule.body[st.dot])
               /\ st.backpointers[st.dot][1] < i

\* C13: ambiguous derivations are retained: a state that differs from the
\* states of its column only in its backpointer spans is inserted, and for
\* S -> S S | a on "a a a" column 3 holds S -> S S . (start 0) with the spans
\* ((0,1),(1,3)) and with the spans ((0,2),(2,3)).
C13_AmbiguityRetained ==
    /\ \A q \in Stored :
           LET st == chart[q[1] + 1][q[2]]
           IN  \A m \in 0..q[1] :
                   LET other == [st EXCEPT !.backpointers =
                                    [n \in 1..Len(@) |-> IF n = Len(@) THEN <<m, q[1]>> ELSE @[n]]]
                   IN  (st.dot > 0 /\ ~Contains(chart[q[1] + 1], other)) =>
                           /\ add_to_chart(chart, other, q[1]) # chart
                           /\ Contains(add_to_chart(chart, other, q[1])[q[1] + 1], st)
    /\ (finished /\ rules = G_amb /\ words = <<"a", "a", "a">>) =>
           /\ Contains(chart[4], State(Rule("S", <<"S", "S">>), 2, 0, <<<<0, 1>>, <<1, 3>>>>))
           /\ Contains(chart[4], State(Rule("S", <<"S", "S">>), 2, 0, <<<<0, 2>>, <<2, 3>>>>))

\* C13 witness: the parse of "a a a" with S -> S S | a has ended and its last
\* column holds two states that differ only in their spans.
C13_Witness ==
    /\ finished
    /\ rules = G_amb
    /\ words = <<"a", "a", "a">>
    /\ \E k, m \in 1..Len(chart[4]) :
           /\ chart[4][k].rule = chart[4][m].rule
           /\ chart[4][k].dot = chart[4][m].dot
           /\ chart[4][k].start = chart[4][m].start
           /\ chart[4][k].backpointers # chart[4][m].backpointers

\* sym is a nonterminal that no rule of the grammar defines
Undefined(sym) == isupper(sym) /\ \A r \in 1..Len(rules) : rules[r].head # sym

\* every rule headed by S has an undefined nonterminal in its body
StartNeedsUndefined ==
    \A r \in 1..Len(rules) :
        rules[r].head = "S" =>
            \E k \in 1..Len(rules[r].body) : Undefined(rules[r].body[k])

\* C14: an undefined nonterminal is not an error: predict on a nonterminal
\* without rules adds no state, and when S can only be derived through such a
\* nonterminal (as in S -> B without a rule for B) every parse runs to its end
\* and returns (false, no tree).
C14_UndefinedNonterminal ==
    /\ \A q \in Stored :
           LET st == chart[q[1] + 1][q[2]]
           IN  (~is_complete(st) /\ Undefined(next_symbol(st))) =>
                   predict(rules, chart, st, q[1]) = chart
    /\ (finished /\ StartNeedsUndefined) =>
           /\ pc = "done"
           /\ result = [accepted |-> FALSE, tree |-> NoTree, error |-> ""]

\* C14 witness: a parse of a non-empty sentence has ended for a grammar that
\* holds S -> B, no rule for B and a rule for another nonterminal.
C14_Witness ==
    /\ finished
    /\ rules = G_undef_other
    /\ Len(words) > 0
    /\ Undefined("B")
    /\ \E k \in 1..Len(chart[1]) : next_symbol(chart[1][k]) = "B"

\* the chart columns the step the loop is about to take hands to _add_to_chart
AddPositions ==
    IF ~InLoop THEN {}
    ELSE IF is_complete(cur) \/ isupper(next_symbol(cur)) THEN {i}
    ELSE IF i < Len(words) /\ next_symbol(cur) = words[i + 1] THEN {i + 1}
    ELSE {}

\* C15: out-of-range insertion is unreachable: while a sentence of N tokens is
\* parsed the chart has the columns 0..N, the loop position stays in 0..N,
\* every column handed to _add_to_chart is one of 0..N, and scan at position N
\* adds nothing.
C15_InRange ==
    pc = "loop" =>
        /\ Len(chart) = Len(words) + 1
        /\ i <= Len(words)
        /\ \A p \in AddPositions : p <= Len(words) /\ p < Len(chart)
        /\ (InLoop /\ i = Len(words)) => scan(chart, cur, i, words) = chart

\* C15 witness: the loop is at the last column of a non-empty sentence and
\* looks at a state that expects a terminal, the case in which scan is called
\* at position N.
C15_Witness ==
    /\ InLoop
    /\ Len(words) > 0
    /\ i = Len(words)
    /\ ~is_complete(cur)
    /\ ~isupper(next_symbol(cur))

\* tree is the tree _build_tree makes of the state st when no lookup misses:
\* the head of the rule with one child per body symbol, in body order
RECURSIVE Shaped(_, _)
Shaped(tree, st) ==
    /\ tree.symbol = st.rule.head
    /\ Len(tree.children) = Len(st.rule.body)
    /\ \A n \in 1..Len(st.rule.body) :
           LET symbol == st.rule.body[n]
               start_pos == st.backpointers[n][1]
               end_pos == st.backpointers[n][2]
               k == FirstComplete(chart[end_pos + 1], symbol, start_pos)
           IN  IF isupper(symbol)
               THEN k # 0 /\ Shaped(tree.children[n], chart[end_pos + 1][k])
               ELSE tree.children[n] = ParseTree(words[start_pos + 1], <<>>)

\* C16: the lookups of the tree builder never miss: for every stored state
\* and every nonterminal body symbol before its dot, the column the
\* backpointer ends in holds a complete state with that head and that start;
\* hence the tree parse returns has exactly len(body) children, in body
\* order, at every node built for a rule with a non-empty body.
C16_LookupsHit ==
    /\ \A q \in Stored :
           LET st == chart[q[1] + 1][q[2]]
           IN  \A n \in 1..st.dot :
                   isupper(st.rule.body[n]) =>
                       FirstComplete(chart[st.backpointers[n][2] + 1],
                                     st.rule.body[n], st.backpointers[n][1]) # 0
    /\ (pc = "done" /\ result.tree # NoTree) =>
           Shaped(result.tree, chart[Len(words) + 1][SelectS(chart[Len(words) + 1])])

\* C16 witness: parse has returned a tree with a nonterminal child that has
\* a nonterminal child itself, so the builder looked up states two levels
\* below the selected S state.
C16_Witness ==
    /\ pc = "done"
    /\ result.tree # NoTree
    /\ \E n \in 1..Len(result.tree.children) :
           /\ isupper(result.tree.children[n].symbol)
           /\ \E m \in 1..Len(result.tree.children[n].children) :
                  isupper(result.tree.children[n].children[m].symbol)

\* C17: tree reconstruction terminates: the state the first-match lookup
\* selects for a nonterminal child lies in an earlier column than its parent
\* or at a smaller index of the same column, so the pair (column, index)
\* falls strictly along every chain of _build_tree calls, no state is reached
\* from itself, and no parse ends in a RecursionError.
C17_TreeTerminates ==
    /\ \A q \in Stored :
           LET st == chart[q[1] + 1][q[2]]
           IN  \A n \in 1..st.dot :
                   isupper(st.rule.body[n]) =>
                       LET end_pos == st.backpointers[n][2]
                           k == FirstComplete(chart[end_pos + 1], st.rule.body[n],
                                              st.backpointers[n][1])
                       IN  /\ end_pos <= q[1]
                           /\ k # 0
                           /\ end_pos = q[1] => k < q[2]
    /\ finished => result.error # "RecursionError"

\* C17 witness: parse has returned a tree, and the chart holds a complete
\* state with a child of its own head over its own span (a unit cycle or a
\* nullable recursion), the state a lookup could pick in place of the child.
C17_Witness ==
    /\ pc = "done"
    /\ result.tree # NoTree
    /\ \E q \in Stored :
           LET st == chart[q[1] + 1][q[2]]
           IN  /\ is_complete(st)
               /\ \E n \in 1..st.dot :
                      /\ st.rule.body[n] = st.rule.head
                      /\ st.backpointers[n] = <<st.start, q[1]>>

\* C18: tree presence: a parse of a non-empty sentence that returns accepted
\* returns a tree with the root symbol S; accepted without a tree is returned
\* for the empty sentence only.
C18_TreePresence ==
    /\ (pc = "done" /\ result.accepted /\ Len(words) > 0) =>
           result.tree # NoTree /\ result.tree.symbol = "S"
    /\ (pc = "done" /\ result.accepted /\ result.tree = NoTree) => words = <<>>

\* C18 witness: a non-empty sentence was accepted and the last column holds a
\* complete S state without backpointers besides the one the tree was built
\* from.
C18_Witness ==
    /\ pc = "done"
    /\ result.accepted
    /\ Len(words) > 0
    /\ result.tree.symbol = "S"
    /\ \E k \in 1..Len(chart[Len(words) + 1]) :
           LET st == chart[Len(words) + 1][k]
           IN  is_complete(st) /\ st.rule.head = "S" /\ st.backpointers = <<>>

====
